---- MODULE Spec2Model ----
(***************************************************************************)
(* The HTTP/2 client connection engine of h2c (src/main.go, package        *)
(* connection) and the command surface of Http2Client                      *)
(* (src/http2client/http2client.go).                                       *)
(*                                                                         *)
(* The connection struct is the record c; every handler of the Connection  *)
(* interface is an operator from a connection record to the connection     *)
(* record it leaves behind, and an action applies one handler to one       *)
(* input.  The fields written below the line "observation" in              *)
(* newConnection are not fields of the struct: they record what the last   *)
(* handler call did (frames passed to Write, frames that reached the       *)
(* transport, frames handed to or received by a stream, ...) and a         *)
(* little history (ids returned by newStream, the payload each ping        *)
(* request was sent with, the promises accepted and not yet used, the      *)
(* receive window as the peer computes it).                                *)
(*                                                                         *)
(* The packages stream, eventloop and frames are not part of the sources   *)
(* at hand.  The operations of a stream (the definitions named Stream...)  *)
(* are modelled from the specification text, sections 3 and 4.2.           *)
(***************************************************************************)
EXTENDS Integers, Sequences, FiniteSets, TLC

VARIABLES c, frag, h2c, io

vars == <<c, frag, h2c, io>>

---------------------------------------------------------------------------
(* Bounds of the model. *)

\* uint32 is modelled with UintBits bits: arithmetic on uint32 is taken
\* modulo 2^UintBits, so that its overflow is within TLC's reach.
UintBits == 17

\* number of handler calls (requests and inbound frames) on one connection
MaxCalls == 4

\* number of iterations of the loop of sendDataFrames that are followed
MaxChunks == 4

\* body lengths and chunk sizes 0..MaxBody of the fragmentation runs
MaxBody == 6

Uint32 == 2 ^ UintBits

---------------------------------------------------------------------------
(* Program constants. *)

\* 2 << 13
INITIAL_MAX_FRAME_SIZE == 16384

\* 2<<15 - 1
INITIAL_WINDOW_SIZE == 65535

\* threshold := int64(2 << 13)
THRESHOLD == 16384

\* a nil []byte; a body that is present has its length, 0 or more
NoData == 0 - 1

NoRequest == [id |-> 0, method |-> "", path |-> "", data |-> NoData]

---------------------------------------------------------------------------
(* Frames.  One record shape for all frame types; a field a type does not  *)
(* have keeps its value of BaseFrame.  The payload of a DATA frame is the  *)
(* slice [lo, hi) of the body it was cut from.                             *)

BaseFrame ==
    [type |-> "NONE", streamId |-> 0, ack |-> FALSE, endStream |-> FALSE,
     payload |-> 0, increment |-> 0, lo |-> 0, hi |-> 0,
     promisedStreamId |-> 0, headers |-> <<>>,
     maxFrameSize |-> -1, initialWindowSize |-> -1, errorCode |-> ""]

NewSettingsFrame(maxFrameSize, initialWindowSize) ==
    [BaseFrame EXCEPT !.type = "SETTINGS", !.maxFrameSize = maxFrameSize,
                      !.initialWindowSize = initialWindowSize]

NewPingFrame(streamId, payload, ack) ==
    [BaseFrame EXCEPT !.type = "PING", !.streamId = streamId,
                      !.payload = payload, !.ack = ack]

NewWindowUpdateFrame(streamId, increment) ==
    [BaseFrame EXCEPT !.type = "WINDOW_UPDATE", !.streamId = streamId,
                      !.increment = increment]

NewGoAwayFrame(errorCode) ==
    [BaseFrame EXCEPT !.type = "GOAWAY", !.errorCode = errorCode]

NewHeadersFrame(streamId, headers) ==
    [BaseFrame EXCEPT !.type = "HEADERS", !.streamId = streamId,
                      !.headers = headers]

NewDataFrame(streamId, lo, hi, endStream) ==
    [BaseFrame EXCEPT !.type = "DATA", !.streamId = streamId,
                      !.lo = lo, !.hi = hi, !.endStream = endStream]

NewRstStreamFrame(streamId, errorCode) ==
    [BaseFrame EXCEPT !.type = "RST_STREAM", !.streamId = streamId,
                      !.errorCode = errorCode]

NewPushPromiseFrame(streamId, promisedStreamId, headers) ==
    [BaseFrame EXCEPT !.type = "PUSH_PROMISE", !.streamId = streamId,
                      !.promisedStreamId = promisedStreamId,
                      !.headers = headers]

\* a header field
Header(name, value) == [name |-> name, value |-> value]

NewPriorityFrame(streamId) ==
    [BaseFrame EXCEPT !.type = "PRIORITY", !.streamId = streamId]

\* len(frame.Data)
DataLen(frame) == frame.hi - frame.lo

---------------------------------------------------------------------------
(* The connection. *)

newConnection ==
    [ \* fields of struct connection
      settings |-> [serverFrameSize |-> INITIAL_MAX_FRAME_SIZE,
                    initialSendWindowSizeForNewStreams |-> INITIAL_WINDOW_SIZE,
                    initialReceiveWindowSizeForNewStreams |-> INITIAL_WINDOW_SIZE],
      streams |-> <<>>,
      nextPingId |-> 0,
      pendingPingRequests |-> <<>>,
      promisedStreamIDs |-> <<>>,
      isShutdown |-> FALSE,
      connClosed |-> FALSE,
      remainingSendWindowSize |-> INITIAL_WINDOW_SIZE,
      remainingReceiveWindowSize |-> INITIAL_WINDOW_SIZE,
      \* the goroutine that runs the handlers: "running", or "hung" in a
      \* loop that does not end, or "panic" after a runtime panic
      loop |-> "running",
      \* observation: the last handler call
      op |-> "newConnection",
      frame |-> BaseFrame,
      request |-> NoRequest,
      writeCalls |-> <<>>,
      wire |-> <<>>,
      handed |-> <<>>,
      received |-> <<>>,
      decreased |-> <<>>,
      processed |-> {},
      completed |-> <<>>,
      created |-> <<>>,
      associated |-> <<>>,
      connErrors |-> <<>>,
      \* observation: history
      clientIds |-> <<>>,
      pingPayloadOf |-> <<>>,
      pingDone |-> <<>>,
      promised |-> <<>>,
      peerReceiveWindow |-> INITIAL_WINDOW_SIZE,
      increments |-> 0,
      decreases |-> 0,
      nRequests |-> 0,
      nFrames |-> 0 ]

\* The observation of the last call is cleared when a handler is entered.
Enter(s, op, frame, request) ==
    [s EXCEPT !.op = op, !.frame = frame, !.request = request,
              !.writeCalls = <<>>, !.wire = <<>>, !.handed = <<>>,
              !.received = <<>>, !.decreased = <<>>, !.processed = {},
              !.completed = <<>>, !.created = <<>>, !.associated = <<>>,
              !.connErrors = <<>>]

Has(map, key) == key \in DOMAIN map

Put(map, key, value) == (key :> value) @@ map

Delete(map, key) == [k \in DOMAIN map \ {key} |-> map[k]]

---------------------------------------------------------------------------
(* Writing a frame. *)

\* c.conn.Write(encodedFrame): fails on a transport that Shutdown closed.
\* A WINDOW_UPDATE for stream 0 that reaches the peer widens the receive
\* window the peer computes.
TransportWrite(s, frame) ==
    IF s.connClosed
    THEN s
    ELSE [s EXCEPT !.wire = Append(@, frame),
                   !.peerReceiveWindow =
                       IF frame.type = "WINDOW_UPDATE" /\ frame.streamId = 0
                       THEN @ + frame.increment ELSE @]

\* connection.Write: the frame is encoded, the outgoing filters are run on
\* the frame (their result is not encoded again) and the encoded bytes are
\* written.  isShutdown is not read.
Write(s, frame) ==
    TransportWrite([s EXCEPT !.writeCalls = Append(@, frame)], frame)

\* connection.connectionError: prints a message.
connectionError(s, errorCode) ==
    [s EXCEPT !.connErrors = Append(@, errorCode)]

---------------------------------------------------------------------------
(* Connection-level flow control of outbound DATA. *)

RemainingFlowControlWindowIsEnough(s, nBytesToWrite) ==
    s.remainingReceiveWindowSize > nBytesToWrite

DecreaseFlowControlWindow(s, nBytesToWrite) ==
    [s EXCEPT !.remainingSendWindowSize = @ - nBytesToWrite,
              !.decreased = Append(@, nBytesToWrite)]

increaseFlowControlWindow(s, nBytes) ==
    [s EXCEPT !.remainingSendWindowSize = @ + nBytes]

---------------------------------------------------------------------------
(* Streams (package stream). *)

\* stream.New(streamId, request, sendWindow, receiveWindow, conn)
StreamNew(streamId, request, sendWindowSize, receiveWindowSize) ==
    [streamId |-> streamId, request |-> request, state |-> "IDLE",
     remainingSendWindowSize |-> sendWindowSize,
     remainingReceiveWindowSize |-> receiveWindowSize,
     pending |-> <<>>]

\* The state after END_STREAM was sent.
StreamAfterEndStreamSent(state) ==
    CASE state = "OPEN" -> "HALF_CLOSED_LOCAL"
      [] state = "HALF_CLOSED_REMOTE" -> "CLOSED"
      [] OTHER -> state

\* The state after END_STREAM was received.
StreamAfterEndStreamReceived(state) ==
    CASE state = "OPEN" -> "HALF_CLOSED_REMOTE"
      [] state = "HALF_CLOSED_LOCAL" -> "CLOSED"
      [] OTHER -> state

\* A DATA frame leaves the stream: both send windows are decremented, the
\* frame is written, END_STREAM closes the local side.
StreamEmitData(s, id, frame) ==
    LET n == DataLen(frame)
        s1 == DecreaseFlowControlWindow(s, n)
        s2 == [s1 EXCEPT !.streams[id].remainingSendWindowSize = @ - n,
                         !.streams[id].state =
                             IF frame.endStream
                             THEN StreamAfterEndStreamSent(@) ELSE @]
    IN Write(s2, frame)

\* Whether a DATA frame of n bytes may leave the stream now.
StreamWindowsAllow(s, id, n) ==
    /\ RemainingFlowControlWindowIsEnough(s, n)
    /\ s.streams[id].remainingSendWindowSize - n >= 0

\* stream.ProcessPendingDataFrames: drain the queue while the windows allow.
RECURSIVE StreamProcessPendingDataFrames(_, _)
StreamProcessPendingDataFrames(s, id) ==
    LET q == s.streams[id].pending
    IN IF q = <<>> \/ ~StreamWindowsAllow(s, id, DataLen(Head(q)))
       THEN s
       ELSE StreamProcessPendingDataFrames(
                StreamEmitData([s EXCEPT !.streams[id].pending = Tail(@)],
                               id, Head(q)),
                id)

\* stream.SendFrame
StreamSendFrame(s, id, frame) ==
    LET s1 == [s EXCEPT !.handed = Append(@, frame)]
    IN CASE frame.type = "HEADERS" ->
              Write([s1 EXCEPT !.streams[id].state =
                         IF @ = "IDLE"
                         THEN (IF frame.endStream THEN "HALF_CLOSED_LOCAL"
                                                  ELSE "OPEN")
                         ELSE IF frame.endStream
                              THEN StreamAfterEndStreamSent(@) ELSE @],
                    frame)
         [] frame.type = "DATA" ->
              StreamProcessPendingDataFrames(
                  [s1 EXCEPT !.streams[id].pending = Append(@, frame)], id)
         [] OTHER -> Write(s1, frame)

\* stream.ReceiveFrame
StreamReceiveFrame(s, id, frame) ==
    LET st == s.streams[id].state
        s1 == [s EXCEPT !.received = Append(@, <<id, frame.type>>)]
    IN CASE frame.type = "HEADERS" ->
              [s1 EXCEPT !.streams[id].state =
                  LET opened == CASE st = "IDLE" -> "OPEN"
                                  [] st = "RESERVED_REMOTE" -> "HALF_CLOSED_LOCAL"
                                  [] OTHER -> st
                  IN IF frame.endStream
                     THEN StreamAfterEndStreamReceived(opened) ELSE opened]
         [] frame.type = "DATA" ->
              [s1 EXCEPT !.streams[id].state =
                  IF frame.endStream
                  THEN StreamAfterEndStreamReceived(@) ELSE @]
         [] frame.type = "RST_STREAM" ->
              [s1 EXCEPT !.streams[id].state = "CLOSED"]
         [] frame.type = "PUSH_PROMISE" ->
              [s1 EXCEPT !.streams[id].state =
                  IF @ = "IDLE" THEN "RESERVED_REMOTE" ELSE @]
         [] frame.type = "WINDOW_UPDATE" ->
              StreamProcessPendingDataFrames(
                  [s1 EXCEPT !.streams[id].remainingSendWindowSize =
                                @ + frame.increment], id)
         [] OTHER -> s1

\* stream.CloseWithError: RST_STREAM if the state permits, then CLOSED.
StreamCloseWithError(s, id, errorCode) ==
    LET st == s.streams[id].state
        s1 == [s EXCEPT !.streams[id].state = "CLOSED"]
    IN IF st \in {"IDLE", "CLOSED"}
       THEN s1
       ELSE Write(s1, NewRstStreamFrame(id, errorCode))

\* stream.AssociateWithRequest: the stream serves the request from now on.
StreamAssociateWithRequest(s, id, request) ==
    [s EXCEPT !.streams[id].request = request.id,
              !.associated = Append(@, <<id, request.id>>)]

---------------------------------------------------------------------------
(* The streams map. *)

getStreamIfExists(s, streamId) == Has(s.streams, streamId)

\* The connection after getOrCreateStream(streamId); the stream it returns
\* is s.streams[streamId] of the result.
getOrCreateStream(s, streamId) ==
    IF getStreamIfExists(s, streamId)
    THEN s
    ELSE [s EXCEPT !.streams =
                       Put(@, streamId,
                           StreamNew(streamId, 0,
                               s.settings.initialSendWindowSizeForNewStreams,
                               s.settings.initialReceiveWindowSizeForNewStreams)),
                   !.created = Append(@, streamId)]

\* A set of numbers as a sequence, in some order.
RECURSIVE SetToSeq(_)
SetToSeq(S) ==
    IF S = {} THEN <<>>
    ELSE LET x == CHOOSE y \in S : TRUE
         IN <<x>> \o SetToSeq(S \ {x})

\* max(numbers []uint32)
RECURSIVE maxFrom(_, _, _)
maxFrom(numbers, i, result) ==
    IF i > Len(numbers) THEN result
    ELSE maxFrom(numbers, i + 1,
                 IF numbers[i] > result THEN numbers[i] ELSE result)

max(numbers) ==
    IF Len(numbers) = 0 THEN 0 ELSE maxFrom(numbers, 1, numbers[1])

\* streamIdsInUse of newStream: make([]uint32, len(c.streams)) holds
\* len(c.streams) zeros, and the odd ids of the map are appended to them.
streamIdsInUse(s) ==
    [i \in 1..Cardinality(DOMAIN s.streams) |-> 0]
        \o SetToSeq({id \in DOMAIN s.streams : id % 2 = 1})

nextStreamId(s) ==
    IF Len(streamIdsInUse(s)) > 0
    THEN (max(streamIdsInUse(s)) + 2) % Uint32
    ELSE 1

\* The connection after newStream(request); the stream it returns is
\* s.streams[nextStreamId(s)] of the result.
newStream(s, request) ==
    [s EXCEPT !.streams =
                  Put(@, nextStreamId(s),
                      StreamNew(nextStreamId(s), request.id,
                          s.settings.initialSendWindowSizeForNewStreams,
                          s.settings.initialReceiveWindowSizeForNewStreams)),
              !.created = Append(@, nextStreamId(s)),
              !.clientIds = Append(@, nextStreamId(s))]

---------------------------------------------------------------------------
(* Requests. *)

min(a, b) == IF a < b THEN a ELSE b

\* request.GetHeaders()
GetHeaders(request) ==
    <<Header(":method", request.method), Header(":path", request.path)>>

\* One iteration of the loop of sendDataFrames, in uint32 arithmetic.
chunkLo(nChunksSent, chunkSize) == (nChunksSent * chunkSize) % Uint32

chunkHi(nChunksSent, chunkSize, total) ==
    min(((nChunksSent + 1) * chunkSize) % Uint32, total)

loopCondition(nChunksSent, chunkSize, total) ==
    (nChunksSent * chunkSize) % Uint32 < total

isLast(nChunksSent, chunkSize, total) ==
    (nChunksSent * chunkSize) % Uint32 >= total

\* data[lo:hi] panics unless lo <= hi <= len(data)
sliceInRange(lo, hi, length) == lo <= hi /\ hi <= length

\* The loop of sendDataFrames from iteration nChunksSent on.  A loop that is
\* still running after MaxChunks iterations is followed no further: the
\* requests of the model are such that it then never ends.
RECURSIVE sendDataFramesFrom(_, _, _, _, _)
sendDataFramesFrom(s, data, streamId, chunkSize, nChunksSent) ==
    LET total == data % Uint32
        lo == chunkLo(nChunksSent, chunkSize)
        hi == chunkHi(nChunksSent, chunkSize, total)
    IN IF ~loopCondition(nChunksSent, chunkSize, total) THEN s
       ELSE IF nChunksSent >= MaxChunks THEN [s EXCEPT !.loop = "hung"]
       ELSE IF ~sliceInRange(lo, hi, data) THEN [s EXCEPT !.loop = "panic"]
       ELSE sendDataFramesFrom(
                StreamSendFrame(s, streamId,
                    NewDataFrame(streamId, lo, hi,
                                 isLast(nChunksSent + 1, chunkSize, total))),
                data, streamId, chunkSize, nChunksSent + 1)

serverFrameSize(s) == s.settings.serverFrameSize

sendDataFrames(s, data, streamId) ==
    sendDataFramesFrom(s, data, streamId, serverFrameSize(s), 0)

doRequest(s, request) ==
    LET streamId == nextStreamId(s)
        s1 == newStream(s, request)
        headersFrame ==
            [NewHeadersFrame(streamId, GetHeaders(request))
                EXCEPT !.endStream = (request.data = NoData)]
        s2 == StreamSendFrame(s1, streamId, headersFrame)
    IN IF request.data # NoData
       THEN sendDataFrames(s2, request.data, streamId)
       ELSE s2

\* findStreamCreatedWithPushPromise(path) finds a stream
findsPromisedStream(s, path) == Has(s.promisedStreamIDs, path)

\* handleGetRequest with a findStreamCreatedWithPushPromise that leaves the
\* entry it finds in the map.
handleGetRequest_KeepsEntry(s, request) ==
    IF findsPromisedStream(s, request.path)
    THEN IF Has(s.streams, s.promisedStreamIDs[request.path])
         THEN StreamAssociateWithRequest(
                  s, s.promisedStreamIDs[request.path], request)
         ELSE doRequest(s, request)
    ELSE doRequest(s, request)

\* findStreamCreatedWithPushPromise deletes the entry it finds and returns
\* c.streams[streamId], which is nil when the map has no such stream.
handleGetRequest(s, request) ==
    IF findsPromisedStream(s, request.path)
    THEN LET streamId == s.promisedStreamIDs[request.path]
             s1 == [s EXCEPT !.promisedStreamIDs = Delete(@, request.path)]
         IN IF Has(s.streams, streamId)
            THEN StreamAssociateWithRequest(s1, streamId, request)
            ELSE doRequest(s1, request)
    ELSE doRequest(s, request)

handlePutRequest(s, request) == doRequest(s, request)

handlePostRequest(s, request) == doRequest(s, request)

\* request.CompleteWithError / CompleteSuccessfully
Complete(s, requestId, outcome) ==
    [s EXCEPT !.completed = Append(@, <<requestId, outcome>>)]

\* conn.error() is the field err, which nothing assigns: it is nil.
HandleHttpRequest(s0, request) ==
    LET s == Enter(s0, "HandleHttpRequest", BaseFrame, request)
    IN CASE request.method = "GET" -> handleGetRequest(s, request)
         [] request.method = "PUT" -> handlePutRequest(s, request)
         [] request.method = "POST" -> handlePostRequest(s, request)
         [] OTHER -> Complete(s, request.id, "error: method not supported")

HandleMonitoringRequest(s0, request) ==
    LET s == Enter(s0, "HandleMonitoringRequest", BaseFrame, request)
    IN Complete(s, request.id, "ok")

\* HandlePingRequest without the increment of nextPingId.
HandlePingRequest_SamePayload(s0, request) ==
    LET s == Enter(s0, "HandlePingRequest", BaseFrame, request)
        pingFrame == NewPingFrame(0, s.nextPingId, FALSE)
    IN Write([s EXCEPT !.pendingPingRequests =
                           Put(@, pingFrame.payload, request.id)],
             pingFrame)

HandlePingRequest(s0, request) ==
    LET s == Enter(s0, "HandlePingRequest", BaseFrame, request)
        pingFrame == NewPingFrame(0, s.nextPingId, FALSE)
    IN Write([s EXCEPT !.nextPingId = @ + 1,
                       !.pendingPingRequests =
                           Put(@, pingFrame.payload, request.id)],
             pingFrame)

Shutdown(s) == [s EXCEPT !.isShutdown = TRUE, !.connClosed = TRUE]

---------------------------------------------------------------------------
(* Inbound frames. *)

isSet(value) == value # 0 - 1

handleSettingsFrame(s, frame) ==
    [s EXCEPT !.settings.serverFrameSize =
                  IF isSet(frame.maxFrameSize) THEN frame.maxFrameSize ELSE @,
              !.settings.initialSendWindowSizeForNewStreams =
                  IF isSet(frame.initialWindowSize)
                  THEN frame.initialWindowSize ELSE @]

\* The sequences that hold every element of S once: the orders in which a
\* range over a Go map may visit the keys S.
Orders(S) ==
    {o \in [1..Cardinality(S) -> S] :
        \A i, j \in 1..Cardinality(S) : i # j => o[i] # o[j]}

RECURSIVE processPendingInOrder(_, _, _)
processPendingInOrder(s, order, i) ==
    IF i > Len(order) THEN s
    ELSE processPendingInOrder(
             StreamProcessPendingDataFrames(
                 [s EXCEPT !.processed = @ \cup {order[i]}], order[i]),
             order, i + 1)

\* handleWindowUpdateFrame without the loop over the streams.
handleWindowUpdateFrame_NoDrain(s, frame, order) ==
    increaseFlowControlWindow(s, frame.increment)

\* The streams whose ProcessPendingDataFrames has something to do.
StreamsWithPending(s) ==
    {id \in DOMAIN s.streams : s.streams[id].pending # <<>>}

\* handleWindowUpdateFrame; order is the order in which the range over the
\* map c.streams visits the streams that hold a queued DATA frame.  On the
\* other streams ProcessPendingDataFrames returns at once, so that their
\* place in the order makes no difference.
handleWindowUpdateFrame(s, frame, order) ==
    LET s1 == increaseFlowControlWindow(s, frame.increment)
    IN processPendingInOrder(
           [s1 EXCEPT !.processed =
                          DOMAIN s.streams \ StreamsWithPending(s)],
           order, 1)

\* handlePingFrame without the delete of the pending entry.
handlePingFrame_NoDelete(s, frame) ==
    IF frame.ack
    THEN IF Has(s.pendingPingRequests, frame.payload)
         THEN Complete(s, s.pendingPingRequests[frame.payload], "ok")
         ELSE s
    ELSE Write(s, NewPingFrame(0, frame.payload, TRUE))

handlePingFrame(s, frame) ==
    IF frame.ack
    THEN IF Has(s.pendingPingRequests, frame.payload)
         THEN Complete([s EXCEPT !.pendingPingRequests =
                                     Delete(@, frame.payload)],
                       s.pendingPingRequests[frame.payload], "ok")
         ELSE s
    ELSE Write(s, NewPingFrame(0, frame.payload, TRUE))

handleFrameForConnection(s, frame, order) ==
    CASE frame.type = "SETTINGS" -> handleSettingsFrame(s, frame)
      [] frame.type = "PING" -> handlePingFrame(s, frame)
      [] frame.type = "WINDOW_UPDATE" -> handleWindowUpdateFrame(s, frame, order)
      [] frame.type = "GOAWAY" -> Shutdown(s)
      [] OTHER -> connectionError(s, "PROTOCOL_ERROR")

\* flowControlForIncomingDataFrame with the threshold compared to the
\* window before the frame instead of after it.
flowControlForIncomingDataFrame_LateThreshold(s, frame) ==
    LET remaining == s.remainingReceiveWindowSize - DataLen(frame)
        diff == INITIAL_WINDOW_SIZE - remaining
        s1 == [s EXCEPT !.peerReceiveWindow = @ - DataLen(frame)]
    IN IF s.remainingReceiveWindowSize < THRESHOLD
       THEN Write([s1 EXCEPT !.remainingReceiveWindowSize = remaining + diff],
                  NewWindowUpdateFrame(0, diff % Uint32))
       ELSE [s1 EXCEPT !.remainingReceiveWindowSize = remaining]

\* flowControlForIncomingDataFrame; the bytes of the frame have been
\* received, which narrows the window the peer computes.
flowControlForIncomingDataFrame(s, frame) ==
    LET remaining == s.remainingReceiveWindowSize - DataLen(frame)
        diff == INITIAL_WINDOW_SIZE - remaining
        s1 == [s EXCEPT !.peerReceiveWindow = @ - DataLen(frame)]
    IN IF remaining < THRESHOLD
       THEN Write([s1 EXCEPT !.remainingReceiveWindowSize = remaining + diff],
                  NewWindowUpdateFrame(0, diff % Uint32))
       ELSE [s1 EXCEPT !.remainingReceiveWindowSize = remaining]

handleIncomingDataFrame(s, frame) ==
    StreamReceiveFrame(
        getOrCreateStream(flowControlForIncomingDataFrame(s, frame),
                          frame.streamId),
        frame.streamId, frame)

\* handleIncomingRstStreamFrame without the test for IDLE.
handleIncomingRstStreamFrame_AlwaysDelivers(s, frame) ==
    StreamReceiveFrame(getOrCreateStream(s, frame.streamId),
                       frame.streamId, frame)

handleIncomingRstStreamFrame(s, frame) ==
    LET s1 == getOrCreateStream(s, frame.streamId)
    IN IF s1.streams[frame.streamId].state = "IDLE"
       THEN connectionError(s1, "PROTOCOL_ERROR")
       ELSE StreamReceiveFrame(s1, frame.streamId, frame)

RECURSIVE findHeaderFrom(_, _, _)
findHeaderFrom(name, headers, i) ==
    IF i > Len(headers) THEN ""
    ELSE IF headers[i].name = name THEN headers[i].value
    ELSE findHeaderFrom(name, headers, i + 1)

findHeader(name, headers) == findHeaderFrom(name, headers, 1)

\* handleIncomingPushPromiseFrame without the test of the state of the
\* associated stream.
handleIncomingPushPromiseFrame_AnyState(s, frame) ==
    IF ~getStreamIfExists(s, frame.streamId)
    THEN connectionError(s, "PROTOCOL_ERROR")
    ELSE LET promised == frame.promisedStreamId
             s1 == StreamReceiveFrame(getOrCreateStream(s, promised),
                                      promised, frame)
             method == findHeader(":method", frame.headers)
             path == findHeader(":path", frame.headers)
         IN IF method # "GET"
            THEN StreamCloseWithError(s1, promised, "REFUSED_STREAM")
            ELSE [s1 EXCEPT !.promisedStreamIDs = Put(@, path, promised)]

\* handleIncomingPushPromiseFrame without the test of the promised method.
handleIncomingPushPromiseFrame_AnyMethod(s, frame) ==
    IF ~getStreamIfExists(s, frame.streamId)
    THEN connectionError(s, "PROTOCOL_ERROR")
    ELSE IF s.streams[frame.streamId].state
                \notin {"OPEN", "HALF_CLOSED_REMOTE"}
    THEN connectionError(s, "PROTOCOL_ERROR")
    ELSE LET promised == frame.promisedStreamId
             s1 == StreamReceiveFrame(getOrCreateStream(s, promised),
                                      promised, frame)
             path == findHeader(":path", frame.headers)
         IN [s1 EXCEPT !.promisedStreamIDs = Put(@, path, promised)]

handleIncomingPushPromiseFrame(s, frame) ==
    IF ~getStreamIfExists(s, frame.streamId)
    THEN connectionError(s, "PROTOCOL_ERROR")
    ELSE IF s.streams[frame.streamId].state
                \notin {"OPEN", "HALF_CLOSED_REMOTE"}
    THEN connectionError(s, "PROTOCOL_ERROR")
    ELSE LET promised == frame.promisedStreamId
             s1 == StreamReceiveFrame(getOrCreateStream(s, promised),
                                      promised, frame)
             method == findHeader(":method", frame.headers)
             path == findHeader(":path", frame.headers)
         IN IF method # "GET"
            THEN StreamCloseWithError(s1, promised, "REFUSED_STREAM")
            ELSE [s1 EXCEPT !.promisedStreamIDs = Put(@, path, promised)]

handleFrameForStream(s, frame) ==
    CASE frame.type = "PUSH_PROMISE" -> handleIncomingPushPromiseFrame(s, frame)
      [] frame.type = "DATA" -> handleIncomingDataFrame(s, frame)
      [] frame.type = "RST_STREAM" -> handleIncomingRstStreamFrame(s, frame)
      [] OTHER -> StreamReceiveFrame(getOrCreateStream(s, frame.streamId),
                                     frame.streamId, frame)

HandleIncomingFrame(s0, frame, order) ==
    LET s == Enter(s0, "HandleIncomingFrame", frame, NoRequest)
    IN IF frame.streamId = 0
       THEN handleFrameForConnection(s, frame, order)
       ELSE handleFrameForStream(s, frame)

\* Start: the connection after the preface and the first SETTINGS frame.
Start ==
    Write(Enter(newConnection, "Start", BaseFrame, NoRequest),
          NewSettingsFrame(0 - 1, 0 - 1))

---------------------------------------------------------------------------
(* The transport: connection.Write and connection.ReadNextFrame at the      *)
(* level of the bytes, with the HPACK contexts and the frame filters.  io   *)
(* holds the fields of the connection that the two methods use               *)
(* (encodingContext, decodingContext, the two filter lists), the bytes of   *)
(* the transport in both directions and a record of the calls.  Write of    *)
(* the sections above is this Write for a connection without filters, a    *)
(* frame standing for its encoding.                                         *)

\* number of frames the server puts on the wire
MaxWire == 2

\* number of calls of Write after Start
MaxWrites == 2

\* No frame: the nil that ReadNextFrame returns with an error.
NilFrame == [BaseFrame EXCEPT !.type = "nil"]

\* An HPACK context is the header list its dynamic table holds, <<>> when
\* the table is empty.  A header block is a literal, which carries the
\* header list and enters it into the table, or an index into the table.
NoBlock == [kind |-> "none", headers |-> <<>>]

Literal(headers) == [kind |-> "literal", headers |-> headers]

Indexed == [kind |-> "indexed", headers |-> <<>>]

hasHeaderBlock(type) == type \in {"HEADERS", "PUSH_PROMISE"}

\* frame.Encode(context): the bytes of the frame and the context after it.
Encode(frame, context) ==
    LET block == IF ~hasHeaderBlock(frame.type) THEN NoBlock
                 ELSE IF frame.headers = context /\ context # <<>>
                 THEN Indexed
                 ELSE Literal(frame.headers)
    IN [bytes |-> [type |-> frame.type,
                   fields |-> [frame EXCEPT !.headers = <<>>],
                   block |-> block],
        context |-> IF block.kind = "literal" THEN frame.headers
                    ELSE context]

\* decodeFunc(flags, streamId, payload, context): the frame, the error and
\* the context after it.  An index into an empty table cannot be decoded.
Decode(bytes, context) ==
    CASE bytes.block.kind = "literal" ->
            [frame |-> [bytes.fields EXCEPT !.headers = bytes.block.headers],
             err |-> "", context |-> bytes.block.headers]
      [] bytes.block.kind = "indexed" /\ context # <<>> ->
            [frame |-> [bytes.fields EXCEPT !.headers = context],
             err |-> "", context |-> context]
      [] bytes.block.kind = "indexed" /\ context = <<>> ->
            [frame |-> NilFrame, err |-> "COMPRESSION_ERROR",
             context |-> context]
      [] OTHER ->
            [frame |-> bytes.fields, err |-> "", context |-> context]

\* The frame filters of the model.  Each looks at the type of the frame it
\* is given, so that nil passes through: one replaces a HEADERS frame by a
\* PING frame, one sets END_STREAM on a HEADERS or DATA frame.
filter(name, frame) ==
    CASE name = "substitutePing" /\ frame.type = "HEADERS" ->
            NewPingFrame(0, 9, FALSE)
      [] name = "setEndStream" /\ frame.type \in {"HEADERS", "DATA"} ->
            [frame EXCEPT !.endStream = TRUE]
      [] OTHER -> frame

\* for _, filter := range filters { frame = filter(frame) }
RECURSIVE applyFiltersFrom(_, _, _)
applyFiltersFrom(filters, frame, i) ==
    IF i > Len(filters) THEN frame
    ELSE applyFiltersFrom(filters, filter(filters[i], frame), i + 1)

applyFilters(filters, frame) == applyFiltersFrom(filters, frame, 1)

\* FindDecoder(type) == nil
isUnknownType(type) == type = "UNKNOWN"

ioIdle ==
    [incoming |-> <<>>, cursor |-> 0,
     encodingContext |-> <<>>, decodingContext |-> <<>>,
     incomingFrameFilters |-> <<>>, outgoingFrameFilters |-> <<>>,
     outgoing |-> <<>>,
     \* the reader: the last result of ReadNextFrame, the frames passed on
     \* to the loop, whether the reader has ended
     frame |-> NilFrame, err |-> "", delivered |-> <<>>,
     readerTerminated |-> FALSE,
     \* record of the calls
     writeCalls |-> <<>>, filtered |-> <<>>,
     encoderTouchedBy |-> {}, decoderTouchedBy |-> {}]

\* connection.Write at the level of the bytes.
WriteEncoded(w, frame) ==
    LET encoded == Encode(frame, w.encodingContext)
        result == applyFilters(w.outgoingFrameFilters, frame)
    IN [w EXCEPT !.encodingContext = encoded.context,
                 !.encoderTouchedBy = @ \cup {"Write"},
                 !.writeCalls = Append(@, frame),
                 !.filtered = Append(@, result),
                 !.outgoing = Append(@, encoded.bytes)]

\* ReadNextFrame with one HPACK context for both directions.
ReadNextFrame_SharedContext(w) ==
    IF w.cursor >= Len(w.incoming)
    THEN [w EXCEPT !.frame = NilFrame, !.err = "EOF"]
    ELSE LET bytes == w.incoming[w.cursor + 1]
             w1 == [w EXCEPT !.cursor = @ + 1]
             decoded == Decode(bytes, w.encodingContext)
         IN IF isUnknownType(bytes.type)
            THEN [w1 EXCEPT !.frame = NilFrame,
                            !.err = "Unknown frame type."]
            ELSE [w1 EXCEPT !.encodingContext = decoded.context,
                            !.encoderTouchedBy = @ \cup {"ReadNextFrame"},
                            !.frame = applyFilters(w.incomingFrameFilters,
                                                   decoded.frame),
                            !.err = decoded.err]

\* connection.ReadNextFrame: the 9 bytes of the header and the payload are
\* read (an error of either read is returned), then the decoder of the
\* type is looked up, the payload decoded and the incoming filters run.
ReadNextFrame(w) ==
    IF w.cursor >= Len(w.incoming)
    THEN [w EXCEPT !.frame = NilFrame, !.err = "EOF"]
    ELSE LET bytes == w.incoming[w.cursor + 1]
             w1 == [w EXCEPT !.cursor = @ + 1]
             decoded == Decode(bytes, w.decodingContext)
         IN IF isUnknownType(bytes.type)
            THEN [w1 EXCEPT !.frame = NilFrame,
                            !.err = "Unknown frame type."]
            ELSE [w1 EXCEPT !.decodingContext = decoded.context,
                            !.decoderTouchedBy = @ \cup {"ReadNextFrame"},
                            !.frame = applyFilters(w.incomingFrameFilters,
                                                   decoded.frame),
                            !.err = decoded.err]

\* The reader of the event loop: it passes the frame on to the loop, and
\* ends on any error of ReadNextFrame.
readerStep(w) ==
    LET w1 == ReadNextFrame(w)
    IN IF w1.err # ""
       THEN [w1 EXCEPT !.readerTerminated = TRUE]
       ELSE [w1 EXCEPT !.delivered = Append(@, w1.frame)]

\* The header lists of the frames of this section.
HeadersA == <<Header(":path", "/a")>>

HeadersB == <<Header(":path", "/b")>>

\* The frames the server may put on the wire, encoded.
WireFrames ==
    {Encode(NewHeadersFrame(1, HeadersA), <<>>).bytes,
     Encode(NewHeadersFrame(1, HeadersA), HeadersA).bytes,
     Encode(NewPingFrame(0, 7, FALSE), <<>>).bytes,
     [type |-> "UNKNOWN", fields |-> [BaseFrame EXCEPT !.type = "UNKNOWN"],
      block |-> NoBlock]}

\* The sequences of at most n elements of S.
SeqsUpTo(S, n) == UNION {[1..k -> S] : k \in 0..n}

\* The frames the loop passes to Write.
WrittenFrames ==
    {NewHeadersFrame(1, HeadersA), NewHeadersFrame(3, HeadersB),
     NewPingFrame(0, 0, FALSE)}

\* The filter lists a client registers.
FilterLists ==
    {<<>>, <<"setEndStream">>, <<"substitutePing", "setEndStream">>,
     <<"setEndStream", "substitutePing">>}

\* Start at the level of the bytes: the first SETTINGS frame is written.
ioStart(incoming, incomingFrameFilters, outgoingFrameFilters) ==
    WriteEncoded([ioIdle EXCEPT
                     !.incoming = incoming,
                     !.incomingFrameFilters = incomingFrameFilters,
                     !.outgoingFrameFilters = outgoingFrameFilters],
                 NewSettingsFrame(0 - 1, 0 - 1))

\* The reader goroutine calls ReadNextFrame.
ReaderReads ==
    /\ ~io.readerTerminated
    /\ io' = readerStep(io)
    /\ UNCHANGED <<c, frag, h2c>>

\* The loop calls Write.
LoopWrites ==
    /\ Len(io.writeCalls) <= MaxWrites
    /\ \E frame \in WrittenFrames : io' = WriteEncoded(io, frame)
    /\ UNCHANGED <<c, frag, h2c>>

---------------------------------------------------------------------------
(* sendDataFrames, one iteration of its loop at a time.  frag.data is       *)
(* len(data), frag.frames the DATA frames handed to the stream so far.      *)

fragIdle ==
    [data |-> 0, chunkSize |-> 0, nChunksSent |-> 0, frames |-> <<>>,
     pc |-> "idle"]

\* Lengths of bodies: short ones, and the longest whose length is a uint32.
FragData == (0..MaxBody) \cup {Uint32 - 1}

\* Values of serverFrameSize: handleSettingsFrame accepts every uint32.
FragSizes == (0..MaxBody) \cup {Uint32 \div 2, Uint32 - 1}

sendDataFramesEnter(data, chunkSize) ==
    [data |-> data, chunkSize |-> chunkSize, nChunksSent |-> 0,
     frames |-> <<>>, pc |-> "loop"]

sendDataFramesIteration(f) ==
    LET total == f.data % Uint32
        lo == chunkLo(f.nChunksSent, f.chunkSize)
        hi == chunkHi(f.nChunksSent, f.chunkSize, total)
    IN IF ~loopCondition(f.nChunksSent, f.chunkSize, total)
       THEN [f EXCEPT !.pc = "done"]
       ELSE IF ~sliceInRange(lo, hi, f.data)
       THEN [f EXCEPT !.pc = "panic"]
       ELSE [f EXCEPT !.nChunksSent = @ + 1,
                      !.frames = Append(@,
                          NewDataFrame(1, lo, hi,
                              isLast(f.nChunksSent + 1, f.chunkSize, total)))]

sendDataFramesStep ==
    /\ frag.pc = "loop"
    /\ frag.nChunksSent <= MaxChunks
    /\ frag' = sendDataFramesIteration(frag)
    /\ UNCHANGED <<c, h2c, io>>

---------------------------------------------------------------------------
(* Http2Client.  h2c.loop is the index in h2c.loops of the Loop the client  *)
(* holds, 0 for nil; h2c.loops are the loops started so far, each with its  *)
(* Host and Port, whether it has terminated and the number of commands      *)
(* sent to its channels.  h2c.err is assigned nowhere: it is nil.           *)

\* number of event loops one client starts
MaxLoops == 2

\* number of commands submitted to one event loop
MaxCommands == 2

NoPort == 0

DEFAULT_PORT == 443

New == [loop |-> 0, loops |-> <<>>, op |-> "New", result |-> ""]

\* url.Host is a name and a port, NoPort when it has none
Url(scheme, name, port) == [Scheme |-> scheme, Name |-> name, Port |-> port]

loopIsTerminated(h, l) == h.loops[l].terminated

\* isConnected without the test of IsTerminated.
isConnected_IgnoresTermination(h) == h.loop # 0

isConnected(h) == h.loop # 0 /\ ~loopIsTerminated(h, h.loop)

hostAndPort(url) ==
    IF url.Port # NoPort
    THEN <<url.Name, url.Port>>
    ELSE <<url.Name, DEFAULT_PORT>>

\* hostAndPortString, as the url.Host it parses to
hostAndPortString(host, port) ==
    IF port # DEFAULT_PORT THEN <<host, port>> ELSE <<host, NoPort>>

completeUrlWithCurrentConnectionData(h, url) ==
    IF ~isConnected(h) THEN url
    ELSE LET u == [url EXCEPT !.Scheme = IF @ = "" THEN "http" ELSE @]
             hp == hostAndPortString(h.loops[h.loop].Host, h.loops[h.loop].Port)
         IN IF u.Name = ""
            THEN [u EXCEPT !.Name = hp[1], !.Port = hp[2]]
            ELSE u

urlMatchesCurrentConnection(h, url) ==
    /\ isConnected(h)
    /\ url.Scheme = "http"
    /\ hostAndPort(url)[1] = h.loops[h.loop].Host
    /\ hostAndPort(url)[2] = h.loops[h.loop].Port

\* eventloop.Start succeeded: a new loop runs
eventloopStart(h, host, port) ==
    [h EXCEPT !.loops = Append(@, [Host |-> host, Port |-> port,
                                   terminated |-> FALSE, submitted |-> 0]),
              !.loop = Len(h.loops) + 1,
              !.result = ""]

\* Connect; startOk tells whether eventloop.Start succeeds
Connect(h, scheme, host, port, startOk) ==
    IF scheme # "http"
    THEN [h EXCEPT !.result = "connections not supported"]
    ELSE IF h.loop # 0 /\ ~loopIsTerminated(h, h.loop)
    THEN [h EXCEPT !.result = "Already connected"]
    ELSE IF ~startOk
    THEN [h EXCEPT !.result = "Failed to connect"]
    ELSE eventloopStart(h, host, port)

Disconnect(h) ==
    IF isConnected(h)
    THEN [h EXCEPT !.loop = 0, !.result = ""]
    ELSE [h EXCEPT !.result = ""]

\* h2c.loop.<channel> <- cmd, then cmd.AwaitCompletion: outcome is "" or
\* the error of the command
submit(h, outcome) ==
    [h EXCEPT !.loops[h.loop].submitted = @ + 1, !.result = outcome]

putOrPostOrGet(h, url0, startOk, outcome) ==
    LET url == completeUrlWithCurrentConnectionData(h, url0)
        scheme == IF url.Scheme # "" THEN url.Scheme ELSE "http"
        h1 == IF isConnected(h) THEN [h EXCEPT !.result = ""]
              ELSE IF hostAndPort(url)[1] = ""
              THEN [h EXCEPT !.result = "Not connected"]
              ELSE Connect(h, scheme, hostAndPort(url)[1],
                           hostAndPort(url)[2], startOk)
    IN IF h1.result # "" THEN h1
       ELSE IF ~urlMatchesCurrentConnection(h1, url)
       THEN [h1 EXCEPT !.result = "Cannot query"]
       ELSE submit(h1, outcome)

\* PushList and StreamInfo
monitoringCommand(h, outcome) ==
    IF ~isConnected(h)
    THEN [h EXCEPT !.result = "Not connected"]
    ELSE submit(h, outcome)

PingOnce(h, outcome) ==
    IF ~isConnected(h)
    THEN [h EXCEPT !.result = "Not connected"]
    ELSE submit(h, outcome)

Calls(h, op) == [h EXCEPT !.op = op]

Hosts == {"h1", "h2"}

Ports == {DEFAULT_PORT, 8443}

\* The URLs given to Get, Put and Post: a path alone, and URLs with a host
Urls ==
    {Url("", "", NoPort), Url("http", "h1", NoPort), Url("http", "h1", 8443),
     Url("http", "h2", NoPort), Url("https", "h1", NoPort),
     Url("", "h1", NoPort)}

Outcomes == {"", "Timeout"}

\* a command can be submitted without passing the bounds of the model
ClientBounded ==
    /\ Len(h2c.loops) <= MaxLoops
    /\ \A l \in DOMAIN h2c.loops : h2c.loops[l].submitted < MaxCommands

\* eventloop.Start may fail at any time, and succeeds within the bounds
StartResults == IF Len(h2c.loops) < MaxLoops THEN BOOLEAN ELSE {FALSE}

ConnectCall ==
    /\ \E host \in Hosts, port \in Ports, scheme \in {"http", "https"},
          startOk \in StartResults :
          h2c' = Connect(Calls(h2c, "Connect"), scheme, host, port, startOk)
    /\ UNCHANGED <<c, frag, io>>

DisconnectCall ==
    /\ h2c' = Disconnect(Calls(h2c, "Disconnect"))
    /\ UNCHANGED <<c, frag, io>>

HttpCall ==
    /\ ClientBounded
    /\ \E op \in {"Get", "Put", "Post"}, url \in Urls,
          startOk \in StartResults, outcome \in Outcomes :
          h2c' = putOrPostOrGet(Calls(h2c, op), url, startOk, outcome)
    /\ UNCHANGED <<c, frag, io>>

MonitoringCall ==
    /\ ClientBounded
    /\ \E op \in {"PushList", "StreamInfo"}, outcome \in Outcomes :
          h2c' = monitoringCommand(Calls(h2c, op), outcome)
    /\ UNCHANGED <<c, frag, io>>

PingOnceCall ==
    /\ ClientBounded
    /\ \E outcome \in Outcomes :
          h2c' = PingOnce(Calls(h2c, "PingOnce"), outcome)
    /\ UNCHANGED <<c, frag, io>>

\* The event loop of the client ends: its reader met a read error, or the
\* connection was shut down.
LoopTerminates ==
    /\ h2c.loop # 0
    /\ ~loopIsTerminated(h2c, h2c.loop)
    /\ h2c' = [h2c EXCEPT !.loops[h2c.loop].terminated = TRUE,
                          !.op = "LoopTerminates", !.result = ""]
    /\ UNCHANGED <<c, frag, io>>

InitFrag ==
    /\ c = Start
    /\ h2c = New
    /\ io = ioIdle
    /\ \E data \in FragData, chunkSize \in FragSizes :
          /\ data % Uint32 <= MaxChunks * chunkSize \/ chunkSize = 0
          /\ frag = sendDataFramesEnter(data, chunkSize)

NextFrag == sendDataFramesStep

SpecFrag == InitFrag /\ [][NextFrag]_vars

InitClient ==
    /\ c = Start
    /\ frag = fragIdle
    /\ h2c = New
    /\ io = ioIdle

NextClient ==
    \/ ConnectCall
    \/ DisconnectCall
    \/ HttpCall
    \/ MonitoringCall
    \/ PingOnceCall
    \/ LoopTerminates

SpecClient == InitClient /\ [][NextClient]_vars

InitWire ==
    /\ c = Start
    /\ frag = fragIdle
    /\ h2c = New
    /\ \E incoming \in SeqsUpTo(WireFrames, MaxWire),
          inFilters \in FilterLists, outFilters \in FilterLists :
          io = ioStart(incoming, inFilters, outFilters)

NextWire ==
    \/ ReaderReads
    \/ LoopWrites

SpecWire == InitWire /\ [][NextWire]_vars

---------------------------------------------------------------------------
(* The connection engine as a state machine: the handlers of the           *)
(* Connection interface, called in any order.                              *)

\* The requests handled: GET for each path, PUT and POST with an empty
\* body, a small body and a body of several chunks, and a method that is
\* not supported.
RequestKinds ==
    {<<"GET", "/a", NoData>>, <<"GET", "/b", NoData>>,
     <<"PUT", "/a", 40000>>, <<"POST", "/a", 0>>, <<"POST", "/a", 8>>,
     <<"DELETE", "/a", NoData>>}

Requests ==
    {[id |-> c.nRequests + 1, method |-> k[1], path |-> k[2], data |-> k[3]] :
        k \in RequestKinds}

\* The loop of sendDataFrames over this body either ends within MaxChunks
\* iterations or never ends.
ChunkingFollowed(data, chunkSize) ==
    \/ data = NoData
    \/ chunkSize = 0
    \/ data <= MaxChunks * chunkSize

\* The stream ids other than 0 that inbound frames carry.
StreamIds == {1, 2}

PushPromiseHeaders ==
    {<<Header(":method", "GET"), Header(":path", "/a")>>,
     <<Header(":method", "GET"), Header(":path", "/b")>>,
     <<Header(":method", "POST"), Header(":path", "/a")>>}

\* The frames the server sends on stream 0.
ConnectionFrames ==
    {NewSettingsFrame(4, 6),
     NewPingFrame(0, 0, TRUE), NewPingFrame(0, 1, TRUE),
     NewPingFrame(0, 7, FALSE),
     NewWindowUpdateFrame(0, 40000),
     NewGoAwayFrame("NO_ERROR"),
     NewHeadersFrame(0, <<Header(":status", "200")>>)}

\* The frames the server sends on other streams.
StreamFrames ==
    {[NewHeadersFrame(id, <<Header(":status", "200")>>)
              EXCEPT !.endStream = e] : id \in StreamIds, e \in BOOLEAN}
    \cup {NewWindowUpdateFrame(id, 40000) : id \in StreamIds}
    \cup {NewDataFrame(id, 0, 30000, FALSE) : id \in StreamIds}
    \cup {NewDataFrame(1, 0, 70000, FALSE)}
    \cup {NewRstStreamFrame(id, "CANCEL") : id \in StreamIds}
    \cup {NewPushPromiseFrame(1, 2, h) : h \in PushPromiseHeaders}

InboundFrames == ConnectionFrames \cup StreamFrames

\* History: the payload of the PING that was written for a ping request.
PingPayloadsAfter(s0, s) ==
    IF Len(s.writeCalls) > 0 /\ s.writeCalls[1].type = "PING"
    THEN Put(s0.pingPayloadOf, s0.nRequests + 1, s.writeCalls[1].payload)
    ELSE s0.pingPayloadOf

\* History: the ping requests completed, in the order of their completion.
PingsDoneAfter(s0, s) ==
    s0.pingDone \o [i \in 1..Len(s.completed) |-> s.completed[i][1]]

\* History: the sum of the increments of the WINDOW_UPDATE frames received
\* on stream 0.
IncrementsAfter(s0, frame) ==
    IF frame.type = "WINDOW_UPDATE" /\ frame.streamId = 0
    THEN s0.increments + frame.increment
    ELSE s0.increments

RECURSIVE Sum(_)
Sum(numbers) ==
    IF numbers = <<>> THEN 0 ELSE Head(numbers) + Sum(Tail(numbers))

\* History: the sum of the amounts passed to DecreaseFlowControlWindow.
DecreasesAfter(s0, s) == s0.decreases + Sum(s.decreased)

\* A PUSH_PROMISE is accepted when its parent stream exists in state OPEN
\* or HALF_CLOSED_REMOTE.
Accepted(s0, frame) ==
    /\ frame.type = "PUSH_PROMISE"
    /\ frame.streamId # 0
    /\ Has(s0.streams, frame.streamId)
    /\ s0.streams[frame.streamId].state \in {"OPEN", "HALF_CLOSED_REMOTE"}

HeaderValues(frame, name) ==
    {frame.headers[i].value :
        i \in {j \in DOMAIN frame.headers : frame.headers[j].name = name}}

\* History: path -> promised stream id of the newest accepted PUSH_PROMISE
\* with :method GET for the path that no GET for the path has followed.
PromisedAfterFrame(s0, frame) ==
    IF Accepted(s0, frame) /\ HeaderValues(frame, ":method") = {"GET"}
    THEN [p \in DOMAIN s0.promised \cup HeaderValues(frame, ":path") |->
             IF p \in HeaderValues(frame, ":path")
             THEN frame.promisedStreamId ELSE s0.promised[p]]
    ELSE s0.promised

PromisedAfterRequest(s0, request) ==
    IF request.method = "GET"
    THEN [p \in DOMAIN s0.promised \ {request.path} |-> s0.promised[p]]
    ELSE s0.promised

Running == c.loop = "running"

HttpRequest ==
    /\ Running
    /\ c.nRequests + c.nFrames < MaxCalls
    /\ \E request \in Requests :
          /\ request.method = "GET" => request.data = NoData
          /\ ChunkingFollowed(request.data, serverFrameSize(c))
          /\ LET s == HandleHttpRequest(c, request)
             IN c' = [s EXCEPT !.nRequests = @ + 1,
                               !.decreases = DecreasesAfter(c, s),
                               !.promised = PromisedAfterRequest(c, request)]
    /\ UNCHANGED <<frag, h2c, io>>

PingRequest ==
    /\ Running
    /\ c.nRequests + c.nFrames < MaxCalls
    /\ LET s == HandlePingRequest(c, [NoRequest EXCEPT !.id = c.nRequests + 1])
       IN c' = [s EXCEPT !.nRequests = @ + 1,
                         !.pingPayloadOf = PingPayloadsAfter(c, s)]
    /\ UNCHANGED <<frag, h2c, io>>

IncomingFrame ==
    /\ Running
    /\ c.nRequests + c.nFrames < MaxCalls
    /\ \E frame \in InboundFrames :
       \E order \in IF frame.type = "WINDOW_UPDATE" /\ frame.streamId = 0
                    THEN Orders(StreamsWithPending(c)) ELSE {<<>>} :
          LET s == HandleIncomingFrame(c, frame, order)
          IN c' = [s EXCEPT !.nFrames = @ + 1,
                            !.increments = IncrementsAfter(c, frame),
                            !.decreases = DecreasesAfter(c, s),
                            !.pingDone = PingsDoneAfter(c, s),
                            !.promised = PromisedAfterFrame(c, frame)]
    /\ UNCHANGED <<frag, h2c, io>>

ShutdownCall ==
    /\ Running
    /\ ~c.isShutdown
    /\ c' = Shutdown(Enter(c, "Shutdown", BaseFrame, NoRequest))
    /\ UNCHANGED <<frag, h2c, io>>

Init ==
    /\ c = Start
    /\ frag = fragIdle
    /\ h2c = New
    /\ io = ioIdle

Next ==
    \/ HttpRequest
    \/ PingRequest
    \/ IncomingFrame
    \/ ShutdownCall

Spec == Init /\ [][Next]_vars

---------------------------------------------------------------------------
(* The allocation of stream ids when the ids in use are large: requests    *)
(* and inbound frames on streams with ids up to the largest id a frame can *)
(* carry.                                                                   *)

\* The largest stream id: 2^31 - 1 for the 32 bits of uint32.
MaxStreamId == Uint32 \div 2 - 1

\* The stream ids of the inbound frames of this specification.
LargeStreamIds == {1, 2, MaxStreamId - 2, MaxStreamId}

FrameOnStream ==
    /\ Running
    /\ c.nRequests + c.nFrames < MaxCalls
    /\ \E id \in LargeStreamIds :
          LET frame == NewHeadersFrame(id, <<Header(":status", "200")>>)
              s == HandleIncomingFrame(c, frame, <<>>)
          IN c' = [s EXCEPT !.nFrames = @ + 1]
    /\ UNCHANGED <<frag, h2c, io>>

GetRequest ==
    /\ Running
    /\ c.nRequests + c.nFrames < MaxCalls
    /\ \E path \in {"/a", "/b"} :
          LET request == [id |-> c.nRequests + 1, method |-> "GET",
                          path |-> path, data |-> NoData]
          IN c' = [HandleHttpRequest(c, request) EXCEPT !.nRequests = @ + 1]
    /\ UNCHANGED <<frag, h2c, io>>

InitIds == Init

NextIds ==
    \/ FrameOnStream
    \/ GetRequest

SpecIds == InitIds /\ [][NextIds]_vars

---------------------------------------------------------------------------
(* Properties. *)

\* The fields of struct connection.
Fields(s) ==
    <<s.settings, s.streams, s.nextPingId, s.pendingPingRequests,
      s.promisedStreamIDs, s.isShutdown, s.connClosed,
      s.remainingSendWindowSize, s.remainingReceiveWindowSize>>

\* The step is a call of HandleHttpRequest / HandlePingRequest /
\* HandleIncomingFrame.
IsRequestStep == c'.nRequests = c.nRequests + 1

IsFrameStep == c'.nFrames = c.nFrames + 1

\* C1: the ids given to client-initiated streams are odd and strictly
\* increasing, whatever frames the server sent in between.
C1_ClientStreamIdsOddIncreasing ==
    \A i \in 1..Len(c.clientIds) :
        /\ c.clientIds[i] % 2 = 1
        /\ i > 1 => c.clientIds[i] > c.clientIds[i - 1]

OutstandingPings(s, p) ==
    {r \in DOMAIN s.pingPayloadOf :
        /\ s.pingPayloadOf[r] = p
        /\ \A i \in 1..Len(s.pingDone) : s.pingDone[i] # r}

\* C3: a PING ACK whose payload is that of a ping request sent and not yet
\* completed completes exactly that request and removes its entry from the
\* pending-ping map (so the same ACK again completes nothing); a PING ACK
\* with any other payload changes no field of the connection, completes
\* nothing and writes no frame.
C3_PingAckResolvesOnce ==
    [][ (IsFrameStep /\ c'.frame.type = "PING" /\ c'.frame.streamId = 0
            /\ c'.frame.ack)
        => LET p == c'.frame.payload
           IN IF OutstandingPings(c, p) # {}
              THEN /\ \E r \in OutstandingPings(c, p) :
                         c'.completed = << <<r, "ok">> >>
                   /\ p \notin DOMAIN c'.pendingPingRequests
                   /\ OutstandingPings(c', p) = {}
                   /\ c'.writeCalls = <<>>
              ELSE /\ c'.completed = <<>>
                   /\ c'.writeCalls = <<>>
                   /\ Fields(c') = Fields(c)
      ]_vars

\* C3 witness: the ACK of a ping arrived a second time and completed nothing.
C3_Witness ==
    /\ c.op = "HandleIncomingFrame"
    /\ c.frame.type = "PING" /\ c.frame.ack
    /\ c.completed = <<>>
    /\ \E i \in 1..Len(c.pingDone) :
          c.pingPayloadOf[c.pingDone[i]] = c.frame.payload

\* C4: ping requests are sent with payloads that grow from one request to
\* the next (so they are pairwise distinct), every ping request that is not
\* completed still has its own entry in the pending-ping map under the
\* payload it was sent with, and a completed request was sent before it
\* was completed, whatever the order of the ACKs.
C4_PingPayloadsDistinct ==
    /\ \A r1, r2 \in DOMAIN c.pingPayloadOf :
          r1 < r2 => c.pingPayloadOf[r1] < c.pingPayloadOf[r2]
    /\ \A r \in DOMAIN c.pingPayloadOf :
          \/ \E i \in 1..Len(c.pingDone) : c.pingDone[i] = r
          \/ /\ Has(c.pendingPingRequests, c.pingPayloadOf[r])
             /\ c.pendingPingRequests[c.pingPayloadOf[r]] = r
    /\ \A i \in 1..Len(c.pingDone) : c.pingDone[i] \in DOMAIN c.pingPayloadOf
    /\ \A i, j \in 1..Len(c.pingDone) : i # j => c.pingDone[i] # c.pingDone[j]

\* C4 witness: two pings were acknowledged in the reverse order.
C4_Witness ==
    /\ Len(c.pingDone) = 2
    /\ c.pingDone[1] > c.pingDone[2]
    /\ c.pendingPingRequests = <<>>

\* C5: for a body of L > 0 bytes and a chunk size F > 0 the loop of
\* sendDataFrames ends having handed over exactly ceil(L/F) DATA frames, in
\* body order, each of at most F bytes and all but the last of exactly F
\* bytes, which together are the body, with END_STREAM on the last frame
\* and on no other.
C5_Fragmentation ==
    (frag.pc \in {"done", "panic"} /\ frag.data > 0 /\ frag.chunkSize > 0)
    => /\ frag.pc = "done"
       /\ LET n == Len(frag.frames)
              L == frag.data
              F == frag.chunkSize
          IN /\ n = (L + F - 1) \div F
             /\ \A i \in 1..n :
                   /\ DataLen(frag.frames[i]) <= F
                   /\ i < n => DataLen(frag.frames[i]) = F
                   /\ frag.frames[i].lo = IF i = 1 THEN 0
                                          ELSE frag.frames[i - 1].hi
                   /\ frag.frames[i].endStream <=> (i = n)
             /\ frag.frames[n].hi = L

\* C6: the connection send window is never negative.
C6_SendWindowNeverNegative ==
    c.remainingSendWindowSize >= 0

\* C7: after every handler call the remaining connection receive window
\* lies between 16,384 and 65,535 and, while the transport is open, it is
\* the window the peer computes (65,535 plus the increments written on
\* stream 0 minus the DATA bytes received).  Handling a DATA frame that
\* leaves less than 16,384 writes one WINDOW_UPDATE on stream 0 whose
\* increment brings the window back to exactly 65,535; handling any other
\* DATA frame writes no WINDOW_UPDATE on stream 0.
C7_ReceiveWindowInvariant ==
    /\ THRESHOLD <= c.remainingReceiveWindowSize
    /\ c.remainingReceiveWindowSize <= INITIAL_WINDOW_SIZE
    /\ ~c.connClosed => c.peerReceiveWindow = c.remainingReceiveWindowSize

C7_ReceiveWindowReplenished ==
    /\ C7_ReceiveWindowInvariant
    /\ [][ /\ C7_ReceiveWindowInvariant'
           /\ (IsFrameStep /\ c'.frame.type = "DATA" /\ c'.frame.streamId # 0)
              => LET left == c.remainingReceiveWindowSize - DataLen(c'.frame)
                     updates ==
                         {i \in 1..Len(c'.writeCalls) :
                             /\ c'.writeCalls[i].type = "WINDOW_UPDATE"
                             /\ c'.writeCalls[i].streamId = 0}
                 IN IF left < THRESHOLD
                    THEN /\ Cardinality(updates) = 1
                         /\ \A i \in updates :
                               left + c'.writeCalls[i].increment
                                   = INITIAL_WINDOW_SIZE
                         /\ c'.remainingReceiveWindowSize = INITIAL_WINDOW_SIZE
                    ELSE /\ updates = {}
                         /\ c'.remainingReceiveWindowSize = left
       ]_vars

\* C7 witness: a DATA frame took the window below 16,384 and the
\* WINDOW_UPDATE that restores it reached the peer.
C7_Witness ==
    /\ c.op = "HandleIncomingFrame"
    /\ c.frame.type = "DATA"
    /\ Len(c.wire) = 1
    /\ c.wire[1].type = "WINDOW_UPDATE"
    /\ c.wire[1].streamId = 0
    /\ c.wire[1].increment > 0
    /\ c.remainingReceiveWindowSize = INITIAL_WINDOW_SIZE

\* C8: a frame on stream 0 whose type is not SETTINGS, PING, WINDOW_UPDATE
\* or GOAWAY shuts the connection down, a GOAWAY with PROTOCOL_ERROR is
\* written and the outstanding ping requests are completed.
C8_Stream0ViolationShutsDown ==
    (/\ c.op = "HandleIncomingFrame"
     /\ c.frame.streamId = 0
     /\ c.frame.type \notin {"SETTINGS", "PING", "WINDOW_UPDATE", "GOAWAY"})
    => /\ c.isShutdown
       /\ \E i \in 1..Len(c.writeCalls) :
             /\ c.writeCalls[i].type = "GOAWAY"
             /\ c.writeCalls[i].errorCode = "PROTOCOL_ERROR"
       /\ c.pendingPingRequests = <<>>

\* C9: once the shutdown flag is set, no handler call lets a frame reach
\* the transport or adds a stream to the streams map.
C9_NothingAfterShutdown ==
    [][ c.isShutdown
        => /\ c'.wire = <<>>
           /\ c'.created = <<>>
           /\ DOMAIN c'.streams = DOMAIN c.streams
      ]_vars

\* The client was connected before and is not connected now: its loop has
\* terminated or Disconnect was called.
ConnectionLost(h) ==
    /\ Len(h.loops) > 0
    /\ (h.loop = 0 \/ h.loops[h.loop].terminated)

CommandOps == {"Get", "Put", "Post", "PingOnce", "PushList", "StreamInfo"}

C11_SettingsAcknowledged ==
    (/\ c.op = "HandleIncomingFrame"
     /\ c.frame.type = "SETTINGS"
     /\ c.frame.streamId = 0
     /\ ~c.frame.ack)
    => /\ isSet(c.frame.maxFrameSize)
             => c.settings.serverFrameSize = c.frame.maxFrameSize
       /\ isSet(c.frame.initialWindowSize)
             => c.settings.initialSendWindowSizeForNewStreams
                    = c.frame.initialWindowSize
       /\ \E i \in 1..Len(c.writeCalls) :
             /\ c.writeCalls[i].type = "SETTINGS"
             /\ c.writeCalls[i].ack

\* C12: when ReadNextFrame has consumed a frame of unknown type, it has
\* returned no error and the reader goes on reading.
C12_UnknownFrameDiscarded ==
    (/\ io.cursor >= 1
     /\ isUnknownType(io.incoming[io.cursor].type)
     /\ io.err # "EOF")
    => /\ io.err = ""
       /\ ~io.readerTerminated

\* The bytes of a sequence of frames that are encoded one after the other
\* with one HPACK context, which is context before the first of them.
RECURSIVE EncodeAll(_, _)
EncodeAll(frames, context) ==
    IF frames = <<>> THEN <<>>
    ELSE <<Encode(Head(frames), context).bytes>>
             \o EncodeAll(Tail(frames), Encode(Head(frames), context).context)

\* C13: the bytes on the transport are the encodings of the frames that
\* the outgoing filters returned, the filters having been applied in the
\* order of their registration before the frame was encoded.
C13_FilteredFrameIsSent ==
    io.outgoing = EncodeAll(io.filtered, <<>>)

\* C14: a PUSH_PROMISE whose associated stream is not in the streams map,
\* or is in a state other than OPEN and HALF_CLOSED_REMOTE, raises the
\* connection error PROTOCOL_ERROR: no stream is created, no stream
\* receives a frame, and the streams and the push-promise cache stay as
\* they were.
C14_PushPromiseRejected ==
    [][ (IsFrameStep /\ c'.frame.type = "PUSH_PROMISE"
            /\ ~Accepted(c, c'.frame))
        => /\ c'.connErrors = <<"PROTOCOL_ERROR">>
           /\ c'.created = <<>>
           /\ c'.received = <<>>
           /\ c'.streams = c.streams
           /\ c'.promisedStreamIDs = c.promisedStreamIDs
      ]_vars

\* C14 witness: a PUSH_PROMISE was rejected whose associated stream exists
\* in a state that does not allow it.
C14_Witness ==
    /\ c.op = "HandleIncomingFrame"
    /\ c.frame.type = "PUSH_PROMISE"
    /\ c.frame.streamId \in DOMAIN c.streams
    /\ c.streams[c.frame.streamId].state
           \notin {"OPEN", "HALF_CLOSED_REMOTE"}
    /\ c.connErrors = <<"PROTOCOL_ERROR">>

\* C16: an RST_STREAM for a stream that is IDLE, or that the streams map
\* does not hold yet, raises the connection error PROTOCOL_ERROR and no
\* stream receives it; an RST_STREAM for a stream in another state is
\* received by that stream and raises no connection error.
C16_RstStreamOnIdle ==
    [][ (IsFrameStep /\ c'.frame.type = "RST_STREAM"
            /\ c'.frame.streamId # 0)
        => LET id == c'.frame.streamId
           IN IF id \notin DOMAIN c.streams \/ c.streams[id].state = "IDLE"
              THEN /\ c'.connErrors = <<"PROTOCOL_ERROR">>
                   /\ c'.received = <<>>
              ELSE /\ c'.connErrors = <<>>
                   /\ c'.received = << <<id, "RST_STREAM">> >>
      ]_vars

\* C16 witness: an RST_STREAM was received by a stream that was not IDLE.
C16_Witness ==
    /\ c.op = "HandleIncomingFrame"
    /\ c.frame.type = "RST_STREAM"
    /\ c.received = << <<c.frame.streamId, "RST_STREAM">> >>
    /\ c.streams[c.frame.streamId].state = "CLOSED"

\* C15: every path of the push-promise cache was promised with :method GET
\* by an accepted PUSH_PROMISE that no GET has used yet, and maps to the
\* promised stream id, which is a key of the streams map.  Handling an
\* accepted PUSH_PROMISE leaves the promised stream in the map, created if
\* it was not there, and that stream receives the frame; if the promised
\* :method is not GET the promised stream is closed and the cache is left
\* as it was, otherwise the cache maps the promised :path to the promised
\* stream id and is otherwise as before.
C15_CacheInvariant ==
    /\ DOMAIN c.promisedStreamIDs = DOMAIN c.promised
    /\ \A path \in DOMAIN c.promisedStreamIDs :
          /\ c.promisedStreamIDs[path] = c.promised[path]
          /\ c.promisedStreamIDs[path] \in DOMAIN c.streams

C15_PushPromiseAccepted ==
    /\ C15_CacheInvariant
    /\ [][ /\ C15_CacheInvariant'
           /\ (IsFrameStep /\ Accepted(c, c'.frame))
              => LET promised == c'.frame.promisedStreamId
                     methods == HeaderValues(c'.frame, ":method")
                     paths == HeaderValues(c'.frame, ":path")
                 IN /\ promised \in DOMAIN c'.streams
                    /\ c'.created = IF promised \in DOMAIN c.streams
                                    THEN <<>> ELSE <<promised>>
                    /\ c'.received = << <<promised, "PUSH_PROMISE">> >>
                    /\ IF methods # {"GET"}
                       THEN /\ c'.streams[promised].state = "CLOSED"
                            /\ c'.promisedStreamIDs = c.promisedStreamIDs
                       ELSE \A path \in paths :
                               c'.promisedStreamIDs
                                   = Put(c.promisedStreamIDs, path, promised)
       ]_vars

\* C15 witness: a PUSH_PROMISE with :method POST was accepted, its stream
\* created and closed, while the cache holds a path promised earlier.
C15_Witness ==
    /\ c.op = "HandleIncomingFrame"
    /\ c.frame.type = "PUSH_PROMISE"
    /\ HeaderValues(c.frame, ":method") = {"POST"}
    /\ c.received = << <<c.frame.promisedStreamId, "PUSH_PROMISE">> >>
    /\ c.streams[c.frame.promisedStreamId].state = "CLOSED"
    /\ c.promisedStreamIDs # <<>>

\* C17: at all times the connection send window is 65,535 plus the sum of
\* the increments received on stream 0 minus the sum of the amounts passed
\* to DecreaseFlowControlWindow.  Handling a WINDOW_UPDATE on stream 0 adds
\* its increment to the send window (less what the DATA frames drained in
\* the same call take from it), leaves the receive window and the settings
\* as they were, and calls ProcessPendingDataFrames on every stream of the
\* streams map.
C17_SendWindowAccount ==
    c.remainingSendWindowSize
        = INITIAL_WINDOW_SIZE + c.increments - c.decreases

C17_WindowUpdateOnConnection ==
    /\ C17_SendWindowAccount
    /\ [][ /\ C17_SendWindowAccount'
           /\ (IsFrameStep /\ c'.frame.type = "WINDOW_UPDATE"
                  /\ c'.frame.streamId = 0)
              => /\ c'.remainingSendWindowSize
                        = c.remainingSendWindowSize + c'.frame.increment
                              - Sum(c'.decreased)
                 /\ c'.remainingReceiveWindowSize
                        = c.remainingReceiveWindowSize
                 /\ c'.settings = c.settings
                 /\ c'.processed = DOMAIN c.streams
                 /\ DOMAIN c'.streams = DOMAIN c.streams
       ]_vars

\* C17 witness: a WINDOW_UPDATE on stream 0 was handled after DATA frames
\* had left, with a stream in the map that holds a queued DATA frame.
C17_Witness ==
    /\ c.op = "HandleIncomingFrame"
    /\ c.frame.type = "WINDOW_UPDATE"
    /\ c.frame.streamId = 0
    /\ c.decreases > 0
    /\ \E id \in c.processed : c.streams[id].pending # <<>>

\* C18: no client stream is given an id above 2^31 - 1.
C18_StreamIdsExhaust ==
    \A i \in 1..Len(c.clientIds) : c.clientIds[i] <= MaxStreamId

\* C20: the id newStream chooses for a request is not a key of the streams
\* map at the time of the request.
C20_NewStreamReplacesNothing ==
    [][ IsRequestStep
        => \A i \in 1..Len(c'.created) :
              c'.created[i] \notin DOMAIN c.streams
      ]_vars

\* The HPACK context after the frames were encoded one after the other.
RECURSIVE ContextAfterEncoding(_, _)
ContextAfterEncoding(frames, context) ==
    IF frames = <<>> THEN context
    ELSE ContextAfterEncoding(Tail(frames),
                              Encode(Head(frames), context).context)

\* The frames that decoding the bytes one frame after the other yields, up
\* to the first frame that cannot be decoded.
RECURSIVE DecodeAll(_, _)
DecodeAll(bytes, context) ==
    IF bytes = <<>> \/ isUnknownType(Head(bytes).type)
           \/ Decode(Head(bytes), context).err # ""
    THEN <<>>
    ELSE <<Decode(Head(bytes), context).frame>>
             \o DecodeAll(Tail(bytes), Decode(Head(bytes), context).context)

\* The HPACK context after the bytes were decoded one frame after the other.
RECURSIVE ContextAfterDecoding(_, _)
ContextAfterDecoding(bytes, context) ==
    IF bytes = <<>> \/ isUnknownType(Head(bytes).type)
           \/ Decode(Head(bytes), context).err # ""
    THEN context
    ELSE ContextAfterDecoding(Tail(bytes),
                              Decode(Head(bytes), context).context)

\* C19: however the calls of ReadNextFrame by the reader and the calls of
\* Write by the loop interleave, the decoding context is used by
\* ReadNextFrame alone and is the context after decoding the frames read so
\* far in the order of the wire, the frames passed on to the loop are those
\* frames in that order (as the incoming filters returned them), the
\* encoding context is used by Write alone and is the context after
\* encoding the frames in the order of the calls of Write, and the bytes on
\* the transport are the encodings of those frames in that same order.
C19_ContextsFollowWireOrder ==
    LET read == SubSeq(io.incoming, 1, io.cursor)
    IN /\ io.decoderTouchedBy \subseteq {"ReadNextFrame"}
       /\ io.encoderTouchedBy \subseteq {"Write"}
       /\ io.decodingContext = ContextAfterDecoding(read, <<>>)
       /\ io.delivered =
              [i \in 1..Len(DecodeAll(read, <<>>)) |->
                  applyFilters(io.incomingFrameFilters,
                               DecodeAll(read, <<>>)[i])]
       /\ io.encodingContext = ContextAfterEncoding(io.writeCalls, <<>>)
       /\ io.outgoing = EncodeAll(io.writeCalls, <<>>)

\* C19 witness: two frames were read and passed on, the second with an
\* indexed header block, and Write has sent an indexed header block too.
C19_Witness ==
    /\ Len(io.delivered) = 2
    /\ io.incoming[2].block.kind = "indexed"
    /\ io.delivered[2].headers = HeadersA
    /\ \E i \in 1..Len(io.outgoing) : io.outgoing[i].block.kind = "indexed"

\* C21: when doRequest has sent a request on a new client stream, the
\* first frame handed to the stream is HEADERS and every later one is DATA,
\* HEADERS carries END_STREAM exactly when the request has no body, and
\* exactly one of the frames carries END_STREAM, the last one; also for a
\* request whose body is present but empty.
C21_EndStreamOnLastFrameOnly ==
    (/\ c.op = "HandleHttpRequest"
     /\ c.created # <<>>)
    => /\ c.handed # <<>>
       /\ c.handed[1].type = "HEADERS"
       /\ c.handed[1].endStream = (c.request.data = NoData)
       /\ \A i \in 2..Len(c.handed) : c.handed[i].type = "DATA"
       /\ {i \in 1..Len(c.handed) : c.handed[i].endStream} = {Len(c.handed)}

\* C22: sendDataFrames terminates for every body and every chunk size that
\* handleSettingsFrame accepts, 0 and sizes whose product with the chunk
\* count overflows included: every iteration after which the loop goes on
\* has moved the offset nChunksSent*chunkSize forward, so that the loop
\* condition, which reads only this offset and the length of the body, is
\* false after finitely many iterations and finitely many DATA frames.
C22_SendDataFramesTerminates ==
    [][ (frag.pc = "loop" /\ frag'.pc = "loop")
        => chunkLo(frag'.nChunksSent, frag'.chunkSize)
               > chunkLo(frag.nChunksSent, frag.chunkSize) ]_vars

\* C23: handling an inbound frame that ends in a connection error (an
\* RST_STREAM for a stream that is IDLE or not in the map, a PUSH_PROMISE
\* whose parent is missing or in a wrong state, a forbidden frame type on
\* stream 0) leaves the streams map, the push-promise cache, the pending
\* pings and both connection windows as they were, and with them the id
\* the next client stream gets.
C23_RejectedFrameChangesNothing ==
    [][ (IsFrameStep /\ c'.connErrors # <<>>)
        => /\ c'.streams = c.streams
           /\ c'.promisedStreamIDs = c.promisedStreamIDs
           /\ c'.pendingPingRequests = c.pendingPingRequests
           /\ c'.remainingSendWindowSize = c.remainingSendWindowSize
           /\ c'.remainingReceiveWindowSize = c.remainingReceiveWindowSize
           /\ nextStreamId(c') = nextStreamId(c)
      ]_vars

====
